---- MODULE Spec2Model ----
(***************************************************************************)
(* BaseTransport of yojimbo (yojimbo_transport.cpp): the send and receive  *)
(* queues, the write path (WriteAndFlushPacket) and the read path          *)
(* (ReadPackets), the packet type classification arrays, the counters,     *)
(* and the encryption / context managers the transport consults.           *)
(***************************************************************************)
EXTENDS Integers, Sequences, FiniteSets, TLC

\* ------------------------------------------------------------------ bounds
MaxPackets == 3          \* packets the application creates and sends
MaxDatagrams == 3        \* datagrams that arrive at the raw I/O layer
MaxSequence == 2         \* sequence numbers the application sends with
MaxWrites == 2           \* packets sent where the write path is explored
MaxBurst == 4            \* datagrams that arrive where the drain loop is explored
MaxTime == 2             \* AdvanceTime stops at this time
MaxTraffic == 2          \* packets sent plus datagrams arrived where every operation runs

\* ------------------------------------------------- construction parameters
SendQueueSize == 2
ReceiveQueueSize == 2
NumPacketTypes == 2
EncryptionMappingTimeout == 1

NULL == 0
YOJIMBO_INSECURE_CONNECT == TRUE
TRANSPORT_FLAG_INSECURE_MODE == 1

Addresses == {1, 2}
PacketTypes == 0..(NumPacketTypes - 1)
Sequences == 1..MaxSequence
PacketIds == 1..(MaxPackets + MaxWrites + MaxDatagrams + MaxBurst)
FlagValues == {0, TRANSPORT_FLAG_INSECURE_MODE}
NumContexts == 2
MaxEncryptionMappings == 2
MaxContextMappings == 2
PrimaryFactory == 1
PrimaryAllocator == 1
OtherAllocator == 2
UserContext == 1
SendKey == 1
ReceiveKey == 2
ContextIds == 1..NumContexts
WriteFaults == {"none", "write", "encrypt"}
ReadFaults == {"none", "small", "decrypt", "read"}

CounterNames ==
    { "PACKETS_SENT", "PACKETS_RECEIVED", "PACKETS_READ", "PACKETS_WRITTEN",
      "SEND_QUEUE_OVERFLOW", "RECEIVE_QUEUE_OVERFLOW",
      "READ_PACKET_FAILURES", "WRITE_PACKET_FAILURES",
      "ENCRYPT_PACKET_FAILURES", "DECRYPT_PACKET_FAILURES",
      "ENCRYPTED_PACKETS_READ", "ENCRYPTED_PACKETS_WRITTEN",
      "UNENCRYPTED_PACKETS_READ", "UNENCRYPTED_PACKETS_WRITTEN",
      "ENCRYPTION_MAPPING_FAILURES" }

VARIABLES
    m_packetFactory,            \* NULL or the attached factory
    m_allPacketTypes,           \* NULL (<<>>) or [type -> 1]
    m_packetTypeIsEncrypted,    \* NULL (<<>>) or [type -> 0 or 1]
    m_packetTypeIsUnencrypted,  \* NULL (<<>>) or [type -> 0 or 1]
    m_flags,
    m_time,
    m_context,
    m_streamAllocator,
    m_sendQueue,                \* sequence of PacketEntry
    m_receiveQueue,             \* sequence of PacketEntry
    m_counters,
    m_encryptionManager,        \* address -> NoMapping or key mapping
    m_contextManager,           \* address -> NoContext or context
    destroyed,                  \* packet id -> number of Destroy() calls
    nextPacket,                 \* id of the next packet object created
    sentPackets,                \* ids of the packets passed to SendPacket
    returnedPackets,            \* ids of the packets ReceivePacket returned
    pending,                    \* datagrams pending at the raw I/O layer
    arrived,                    \* number of datagrams that arrived so far
    from,                       \* caller's `from` output argument
    sequenceOut,                \* caller's `*sequence` output argument
    ret,                        \* what the last ReceivePacket returned
    writeLog,                   \* the WritePacket / InternalSendPacket calls and
    readLog                     \*   the InternalReceivePacket / ReadPacket calls
                                \*   made by the operation that ran last

vars == << m_packetFactory, m_allPacketTypes, m_packetTypeIsEncrypted,
           m_packetTypeIsUnencrypted, m_flags, m_time, m_context,
           m_streamAllocator, m_sendQueue, m_receiveQueue, m_counters,
           m_encryptionManager, m_contextManager, destroyed, nextPacket,
           sentPackets, returnedPackets, pending, arrived, from, sequenceOut,
           ret, writeLog, readLog >>

configVars == << m_flags, m_time, m_context, m_streamAllocator >>
tableVars == << m_allPacketTypes, m_packetTypeIsEncrypted, m_packetTypeIsUnencrypted >>
outVars == << from, sequenceOut, ret >>

\* ----------------------------------------------------------------- helpers
NullArray == << >>

\* memset( array, value, numPacketTypes )
Fill(value) == [t \in PacketTypes |-> value]

Inc(counters, name) == [counters EXCEPT ![name] = @ + 1]

Destroy(d, packet) == [d EXCEPT ![packet.id] = @ + 1]

IsFull(queue, size) == Len(queue) = size

IsEmpty(queue) == Len(queue) = 0

Push(queue, size, entry) == IF Len(queue) = size THEN queue ELSE Append(queue, entry)

\* the loop of ClearSendQueue / ClearReceiveQueue: Destroy() on every entry
RECURSIVE DestroyEntries(_, _, _)
DestroyEntries(d, queue, i) ==
    IF i > Len(queue) THEN d
    ELSE DestroyEntries(Destroy(d, queue[i].packet), queue, i + 1)

\* ------------------------------------------------ encryption key directory
NoMapping == [ present |-> FALSE, sendKey |-> NULL, receiveKey |-> NULL, lastAccessTime |-> 0 ]

\* a mapping not accessed for longer than the timeout is treated as absent
Live(mapping, time) ==
    mapping.present /\ mapping.lastAccessTime + EncryptionMappingTimeout >= time

NumLive(manager, time) == Cardinality({ a \in Addresses : Live(manager[a], time) })

EncryptionManager_Add(manager, address, sendKey, receiveKey, time) ==
    IF Live(manager[address], time) \/ NumLive(manager, time) < MaxEncryptionMappings
    THEN [ ok |-> TRUE,
           manager |-> [manager EXCEPT ![address] =
                          [ present |-> TRUE, sendKey |-> sendKey,
                            receiveKey |-> receiveKey, lastAccessTime |-> time ]] ]
    ELSE [ ok |-> FALSE, manager |-> manager ]

EncryptionManager_Remove(manager, address, time) ==
    IF manager[address].present
    THEN [ ok |-> TRUE, manager |-> [manager EXCEPT ![address] = NoMapping] ]
    ELSE [ ok |-> FALSE, manager |-> manager ]

\* the lookup refreshes the access time of the mapping it finds
GetSendKey(manager, address, time) ==
    IF Live(manager[address], time)
    THEN [ key |-> manager[address].sendKey,
           manager |-> [manager EXCEPT ![address].lastAccessTime = time] ]
    ELSE [ key |-> NULL, manager |-> manager ]

GetReceiveKey(manager, address, time) ==
    IF Live(manager[address], time)
    THEN [ key |-> manager[address].receiveKey,
           manager |-> [manager EXCEPT ![address].lastAccessTime = time] ]
    ELSE [ key |-> NULL, manager |-> manager ]

\* ------------------------------------------------------- context directory
NoContext == [ present |-> FALSE, streamAllocator |-> NULL, packetFactory |-> NULL, contextData |-> NULL ]

ContextOf(c) == [ present |-> TRUE, streamAllocator |-> 10 + c, packetFactory |-> 20 + c, contextData |-> 30 + c ]

NumContextMappings(manager) == Cardinality({ a \in Addresses : manager[a].present })

ContextManager_Add(manager, address, context) ==
    IF manager[address].present \/ NumContextMappings(manager) >= MaxContextMappings
    THEN [ ok |-> FALSE, manager |-> manager ]
    ELSE [ ok |-> TRUE, manager |-> [manager EXCEPT ![address] = context] ]

ContextManager_Remove(manager, address) ==
    IF manager[address].present
    THEN [ ok |-> TRUE, manager |-> [manager EXCEPT ![address] = NoContext] ]
    ELSE [ ok |-> FALSE, manager |-> manager ]

GetContext(manager, address) == manager[address]

\* -------------------------------------------------------- packet processor
\* WritePacket: the error it reports (NULL data), or "none" with the bytes.
\* fault is what goes wrong inside the processor for this packet.
WritePacket(packet, sequence, encrypt, key, fault) ==
    IF encrypt /\ key = NULL THEN "KEY_IS_NULL"
    ELSE IF fault = "write" THEN "WRITE_PACKET_FAILED"
    ELSE IF encrypt /\ fault = "encrypt" THEN "ENCRYPT_FAILED"
    ELSE "none"

\* ReadPacket: the error it reports (NULL packet), or "none" with the packet,
\* its sequence number and whether it was encrypted on the wire.
ReadPacket(datagram, key, encryptedPacketTypes, unencryptedPacketTypes) ==
    IF datagram.fault = "small" THEN "PACKET_TOO_SMALL"
    ELSE IF datagram.encrypted
         THEN IF key = NULL THEN "KEY_IS_NULL"
              ELSE IF datagram.fault = "decrypt" THEN "DECRYPT_FAILED"
              ELSE IF datagram.fault = "read" \/ encryptedPacketTypes[datagram.type] = 0
                   THEN "READ_PACKET_FAILED"
              ELSE "none"
         ELSE IF datagram.fault = "read" \/ unencryptedPacketTypes[datagram.type] = 0
              THEN "READ_PACKET_FAILED"
              ELSE "none"

\* -------------------------------------------------------------------- Init
Init ==
    /\ m_packetFactory = NULL
    /\ m_allPacketTypes = NullArray
    /\ m_packetTypeIsEncrypted = NullArray
    /\ m_packetTypeIsUnencrypted = NullArray
    /\ m_flags = 0
    /\ m_time = 0
    /\ m_context = NULL
    /\ m_streamAllocator = PrimaryAllocator
    /\ m_sendQueue = << >>
    /\ m_receiveQueue = << >>
    /\ m_counters = [c \in CounterNames |-> 0]
    /\ m_encryptionManager = [a \in Addresses |-> NoMapping]
    /\ m_contextManager = [a \in Addresses |-> NoContext]
    /\ destroyed = [p \in PacketIds |-> 0]
    /\ nextPacket = 1
    /\ sentPackets = {}
    /\ returnedPackets = {}
    /\ pending = << >>
    /\ arrived = 0
    /\ from = NULL
    /\ sequenceOut = 0
    /\ ret = NULL
    /\ writeLog = << >>
    /\ readLog = << >>

\* ------------------------------------------------------------- write path
IsEncryptedPacketType(type) == m_packetTypeIsEncrypted[type] # 0

InsecureMode == (m_flags \div TRANSPORT_FLAG_INSECURE_MODE) % 2 = 1

\* the encrypt flag taken from the classification alone
EncryptFlag_ignoreKey(packetType, key) == IsEncryptedPacketType(packetType)

\* the encrypt flag requiring a key whether or not the insecure flag is set
EncryptFlag_keyedOnly(packetType, key) == IsEncryptedPacketType(packetType) /\ key # NULL

\* const bool encrypt = ...
EncryptFlag(packetType, key) ==
    IF YOJIMBO_INSECURE_CONNECT
    THEN IF InsecureMode
         THEN IsEncryptedPacketType(packetType) /\ key # NULL
         ELSE IsEncryptedPacketType(packetType)
    ELSE IsEncryptedPacketType(packetType)

\* the write path's switch with the key-missing case filed under encrypt failures
WriteErrorCounters_keyAsEncrypt(counters, error) ==
    CASE error = "KEY_IS_NULL" -> Inc(counters, "ENCRYPT_PACKET_FAILURES")
      [] error = "ENCRYPT_FAILED" -> Inc(counters, "ENCRYPT_PACKET_FAILURES")
      [] error = "WRITE_PACKET_FAILED" -> Inc(counters, "WRITE_PACKET_FAILURES")
      [] OTHER -> counters

\* the write path's switch leaving a failed serialization to the default case
WriteErrorCounters_writeUncounted(counters, error) ==
    CASE error = "KEY_IS_NULL" -> Inc(counters, "ENCRYPTION_MAPPING_FAILURES")
      [] error = "ENCRYPT_FAILED" -> Inc(counters, "ENCRYPT_PACKET_FAILURES")
      [] OTHER -> counters

\* switch ( m_packetProcessor->GetError() ) of the write path
WriteErrorCounters(counters, error) ==
    CASE error = "KEY_IS_NULL" -> Inc(counters, "ENCRYPTION_MAPPING_FAILURES")
      [] error = "ENCRYPT_FAILED" -> Inc(counters, "ENCRYPT_PACKET_FAILURES")
      [] error = "WRITE_PACKET_FAILED" -> Inc(counters, "WRITE_PACKET_FAILURES")
      [] OTHER -> counters

\* counters after InternalSendPacket
WrittenCounters(counters, encrypt) ==
    IF encrypt
    THEN Inc(Inc(counters, "PACKETS_WRITTEN"), "ENCRYPTED_PACKETS_WRITTEN")
    ELSE Inc(Inc(counters, "PACKETS_WRITTEN"), "UNENCRYPTED_PACKETS_WRITTEN")

\* WriteAndFlushPacket always giving the processor the transport's own
\* context data
WriteAndFlushPacket_primaryContext(s, address, packet, sequence, fault) ==
    LET packetType == packet.type
        lookup == GetSendKey(s.manager, address, m_time)
        key == lookup.key
        encrypt == EncryptFlag(packetType, key)
        context == GetContext(m_contextManager, address)
        streamAllocator == IF context.present THEN context.streamAllocator ELSE m_streamAllocator
        packetFactory == IF context.present THEN context.packetFactory ELSE m_packetFactory
        contextData == m_context
        error == WritePacket(packet, sequence, encrypt, key, fault)
        call == [ packet |-> packet.id, type |-> packetType, address |-> address,
                  sequence |-> sequence, encrypt |-> encrypt, key |-> key,
                  streamAllocator |-> streamAllocator, packetFactory |-> packetFactory,
                  context |-> contextData, error |-> error, sent |-> (error = "none") ]
    IN  [ s EXCEPT !.manager = lookup.manager,
                   !.log = Append(@, call),
                   !.counters = IF error # "none"
                                THEN WriteErrorCounters(@, error)
                                ELSE WrittenCounters(@, encrypt) ]

\* s = [counters, manager, destroyed, queue, log, returned]: what the call
\* has changed so far.
\* Each log entry is one WritePacket call; sent says whether
\* InternalSendPacket was then called with the bytes.
WriteAndFlushPacket(s, address, packet, sequence, fault) ==
    LET packetType == packet.type
        lookup == GetSendKey(s.manager, address, m_time)
        key == lookup.key
        encrypt == EncryptFlag(packetType, key)
        context == GetContext(m_contextManager, address)
        streamAllocator == IF context.present THEN context.streamAllocator ELSE m_streamAllocator
        packetFactory == IF context.present THEN context.packetFactory ELSE m_packetFactory
        contextData == IF context.present THEN context.contextData ELSE m_context
        error == WritePacket(packet, sequence, encrypt, key, fault)
        call == [ packet |-> packet.id, type |-> packetType, address |-> address,
                  sequence |-> sequence, encrypt |-> encrypt, key |-> key,
                  streamAllocator |-> streamAllocator, packetFactory |-> packetFactory,
                  context |-> contextData, error |-> error, sent |-> (error = "none") ]
    IN  [ s EXCEPT !.manager = lookup.manager,
                   !.log = Append(@, call),
                   !.counters = IF error # "none"
                                THEN WriteErrorCounters(@, error)
                                ELSE WrittenCounters(@, encrypt) ]

\* WriteLoop draining the queue from its newest entry
RECURSIVE WriteLoop_newestFirst(_, _)
WriteLoop_newestFirst(s, faults) ==
    IF IsEmpty(s.queue) THEN s
    ELSE LET entry == s.queue[Len(s.queue)]
             popped == [s EXCEPT !.queue = SubSeq(@, 1, Len(@) - 1)]
             w == WriteAndFlushPacket(popped, entry.address, entry.packet, entry.sequence, Head(faults))
         IN  WriteLoop_newestFirst([w EXCEPT !.destroyed = Destroy(@, entry.packet)], Tail(faults))

\* while ( !m_sendQueue.IsEmpty() ) { Pop; WriteAndFlushPacket; Destroy }
RECURSIVE WriteLoop(_, _)
WriteLoop(s, faults) ==
    IF IsEmpty(s.queue) THEN s
    ELSE LET entry == Head(s.queue)
             popped == [s EXCEPT !.queue = Tail(@)]
             w == WriteAndFlushPacket(popped, entry.address, entry.packet, entry.sequence, Head(faults))
         IN  WriteLoop([w EXCEPT !.destroyed = Destroy(@, entry.packet)], Tail(faults))

Current == [ counters |-> m_counters, manager |-> m_encryptionManager,
             destroyed |-> destroyed, queue |-> m_sendQueue, log |-> << >>,
             returned |-> FALSE ]

\* -------------------------------------------------------------- read path
\* switch ( m_packetProcessor->GetError() ) of the read path
ReadErrorCounters(counters, error) ==
    CASE error = "KEY_IS_NULL" -> Inc(counters, "ENCRYPTION_MAPPING_FAILURES")
      [] error = "DECRYPT_FAILED" -> Inc(counters, "ENCRYPT_PACKET_FAILURES")
      [] error = "PACKET_TOO_SMALL" -> Inc(counters, "DECRYPT_PACKET_FAILURES")
      [] error = "READ_PACKET_FAILED" -> Inc(counters, "READ_PACKET_FAILURES")
      [] OTHER -> counters

\* the read counters without the else branch
ReadCounters_encryptedOnly(counters, encrypted) ==
    IF encrypted
    THEN Inc(Inc(counters, "PACKETS_READ"), "ENCRYPTED_PACKETS_READ")
    ELSE Inc(counters, "PACKETS_READ")

\* counters after m_receiveQueue.Push
ReadCounters(counters, encrypted) ==
    IF encrypted
    THEN Inc(Inc(counters, "PACKETS_READ"), "ENCRYPTED_PACKETS_READ")
    ELSE Inc(Inc(counters, "PACKETS_READ"), "UNENCRYPTED_PACKETS_READ")

\* the type sets handed to ReadPacket
EncryptedPacketTypes ==
    IF YOJIMBO_INSECURE_CONNECT /\ InsecureMode THEN m_allPacketTypes ELSE m_packetTypeIsEncrypted

UnencryptedPacketTypes ==
    IF YOJIMBO_INSECURE_CONNECT /\ InsecureMode THEN m_allPacketTypes ELSE m_packetTypeIsUnencrypted

\* InternalReceivePacket: the raw I/O layer hands over the datagram at the
\* head of what is pending, which is then no longer pending
InternalReceivePacket(r) == [ r EXCEPT !.pending = Tail(@) ]

\* one iteration of while ( true ) after a datagram was pulled and the
\* receive queue was found not full
ReadOne(r, datagram) ==
    LET address == datagram.address
        lookup == GetReceiveKey(r.manager, address, m_time)
        key == lookup.key
        context == GetContext(m_contextManager, address)
        streamAllocator == IF context.present THEN context.streamAllocator ELSE m_streamAllocator
        packetFactory == IF context.present THEN context.packetFactory ELSE m_packetFactory
        contextData == IF context.present THEN context.contextData ELSE m_context
        error == ReadPacket(datagram, key, EncryptedPacketTypes, UnencryptedPacketTypes)
        packet == [ id |-> r.nextPacket, type |-> datagram.type ]
        entry == [ sequence |-> datagram.sequence, address |-> address, packet |-> packet ]
        call == [ datagram |-> datagram.sequence, address |-> address,
                  type |-> datagram.type, encrypted |-> datagram.encrypted, key |-> key,
                  encryptedPacketTypes |-> EncryptedPacketTypes,
                  unencryptedPacketTypes |-> UnencryptedPacketTypes,
                  streamAllocator |-> streamAllocator, packetFactory |-> packetFactory,
                  context |-> contextData, error |-> error,
                  packet |-> IF error = "none" THEN packet.id ELSE NULL ]
    IN  IF error # "none"
        THEN [ r EXCEPT !.manager = lookup.manager,
                        !.log = Append(@, call),
                        !.counters = ReadErrorCounters(@, error) ]
        ELSE [ r EXCEPT !.manager = lookup.manager,
                        !.log = Append(@, call),
                        !.queue = Push(@, ReceiveQueueSize, entry),
                        !.pushed = @ /\ ~IsFull(r.queue, ReceiveQueueSize),
                        !.nextPacket = @ + 1,
                        !.counters = ReadCounters(@, datagram.encrypted) ]

\* ReadLoop leaving the loop at the first datagram the processor rejects
RECURSIVE ReadLoop_breakOnReject(_)
ReadLoop_breakOnReject(r) ==
    IF IsEmpty(r.pending) THEN r
    ELSE LET datagram == Head(r.pending)
             pulled == InternalReceivePacket(r)
             read == ReadOne(pulled, datagram)
         IN  IF IsFull(pulled.queue, ReceiveQueueSize)
             THEN [ pulled EXCEPT !.counters = Inc(@, "RECEIVE_QUEUE_OVERFLOW"),
                                  !.dropped = Append(@, datagram.sequence) ]
             ELSE IF read.log[Len(read.log)].error # "none" THEN read
             ELSE ReadLoop_breakOnReject(read)

\* ReadLoop counting an overflow for every datagram it cannot queue
RECURSIVE ReadLoop_countEach(_)
ReadLoop_countEach(r) ==
    IF IsEmpty(r.pending) THEN r
    ELSE LET datagram == Head(r.pending)
             pulled == InternalReceivePacket(r)
         IN  IF IsFull(pulled.queue, ReceiveQueueSize)
             THEN ReadLoop_countEach([ pulled EXCEPT !.counters = Inc(@, "RECEIVE_QUEUE_OVERFLOW"),
                                                     !.dropped = Append(@, datagram.sequence) ])
             ELSE ReadLoop_countEach(ReadOne(pulled, datagram))

\* ReadLoop without the test for a full receive queue
RECURSIVE ReadLoop_noFullTest(_)
ReadLoop_noFullTest(r) ==
    IF IsEmpty(r.pending) THEN r
    ELSE ReadLoop_noFullTest(ReadOne(InternalReceivePacket(r), Head(r.pending)))

\* while ( true ) of ReadPackets
RECURSIVE ReadLoop(_)
ReadLoop(r) ==
    IF IsEmpty(r.pending) THEN r
    ELSE LET datagram == Head(r.pending)
             pulled == InternalReceivePacket(r)
         IN  IF IsFull(pulled.queue, ReceiveQueueSize)
             THEN [ pulled EXCEPT !.counters = Inc(@, "RECEIVE_QUEUE_OVERFLOW"),
                                  !.dropped = Append(@, datagram.sequence) ]
             ELSE ReadLoop(ReadOne(pulled, datagram))

\* dropped: the datagrams pulled from raw I/O and neither handed to the
\* packet processor nor queued; pushed: no Push was rejected
CurrentRead == [ counters |-> m_counters, manager |-> m_encryptionManager,
                 queue |-> m_receiveQueue, pending |-> pending,
                 nextPacket |-> nextPacket, log |-> << >>, dropped |-> << >>,
                 pushed |-> TRUE ]

ReadPackets ==
    /\ IF m_packetFactory = NULL
       THEN /\ readLog' = << >>
            /\ UNCHANGED << m_receiveQueue, m_counters, m_encryptionManager, pending, nextPacket >>
       ELSE LET r == ReadLoop(CurrentRead)
            IN  /\ m_receiveQueue' = r.queue
                /\ m_counters' = r.counters
                /\ m_encryptionManager' = r.manager
                /\ pending' = r.pending
                /\ nextPacket' = r.nextPacket
                /\ readLog' = r.log
    /\ writeLog' = << >>
    /\ UNCHANGED << m_packetFactory, tableVars, configVars, m_sendQueue, m_contextManager,
                    destroyed, sentPackets, returnedPackets, arrived, outVars >>

\* Receive handing out the newest entry of the queue
Receive_newest(c, wantSequence) ==
    IF m_packetFactory = NULL THEN [c EXCEPT !.ret = NULL]
    ELSE IF IsEmpty(c.queue) THEN [c EXCEPT !.ret = NULL]
    ELSE LET entry == c.queue[Len(c.queue)]
         IN  [c EXCEPT !.queue = SubSeq(@, 1, Len(@) - 1),
                       !.from = entry.address,
                       !.sequence = IF wantSequence THEN entry.sequence ELSE @,
                       !.counters = Inc(@, "PACKETS_RECEIVED"),
                       !.ret = entry.packet.id]

\* Receive counting the call before it looks at the queue
Receive_countEmpty(c, wantSequence) ==
    IF m_packetFactory = NULL THEN [c EXCEPT !.ret = NULL]
    ELSE IF IsEmpty(c.queue)
         THEN [c EXCEPT !.counters = Inc(@, "PACKETS_RECEIVED"), !.ret = NULL]
    ELSE LET entry == Head(c.queue)
         IN  [c EXCEPT !.queue = Tail(@),
                       !.from = entry.address,
                       !.sequence = IF wantSequence THEN entry.sequence ELSE @,
                       !.counters = Inc(@, "PACKETS_RECEIVED"),
                       !.ret = entry.packet.id]

\* the body of ReceivePacket; wantSequence: the caller passed a non-null
\* sequence pointer
Receive(c, wantSequence) ==
    IF m_packetFactory = NULL THEN [c EXCEPT !.ret = NULL]
    ELSE IF IsEmpty(c.queue) THEN [c EXCEPT !.ret = NULL]
    ELSE LET entry == Head(c.queue)
         IN  [c EXCEPT !.queue = Tail(@),
                       !.from = entry.address,
                       !.sequence = IF wantSequence THEN entry.sequence ELSE @,
                       !.counters = Inc(@, "PACKETS_RECEIVED"),
                       !.ret = entry.packet.id]

ReceivePacket(wantSequence) ==
    LET c == Receive([ queue |-> m_receiveQueue, from |-> from, sequence |-> sequenceOut,
                       counters |-> m_counters, ret |-> NULL ], wantSequence)
    IN  /\ m_receiveQueue' = c.queue
        /\ from' = c.from
        /\ sequenceOut' = c.sequence
        /\ m_counters' = c.counters
        /\ ret' = c.ret
        /\ returnedPackets' = IF c.ret = NULL THEN returnedPackets ELSE returnedPackets \cup { c.ret }
        /\ writeLog' = << >> /\ readLog' = << >>
        /\ UNCHANGED << m_packetFactory, tableVars, configVars, m_sendQueue,
                        m_encryptionManager, m_contextManager, destroyed, nextPacket,
                        sentPackets, pending, arrived >>

\* a datagram arrives at the raw I/O layer; its sequence number is its
\* arrival number
DatagramContents ==
    { c \in [ type : PacketTypes, encrypted : BOOLEAN, fault : ReadFaults ] :
        /\ c.fault # "none" => c.type = 0
        /\ c.fault = "decrypt" => c.encrypted
        /\ c.fault \in { "small", "read" } => ~c.encrypted }

Arrive(address, content) ==
    /\ arrived' = arrived + 1
    /\ pending' = Append(pending, [ address |-> address, sequence |-> arrived + 1,
                                    type |-> content.type, encrypted |-> content.encrypted,
                                    fault |-> content.fault ])
    /\ writeLog' = << >> /\ readLog' = << >>
    /\ UNCHANGED << m_packetFactory, tableVars, configVars, m_sendQueue, m_receiveQueue,
                    m_counters, m_encryptionManager, m_contextManager, destroyed,
                    nextPacket, sentPackets, returnedPackets, outVars >>

\* ---------------------------------------------------------------- actions
\* SetPacketFactory initializing the two classification arrays the other
\* way round
SetPacketFactory_encryptAll ==
    /\ m_packetFactory = NULL
    /\ m_packetFactory' = PrimaryFactory
    /\ m_allPacketTypes' = Fill(1)
    /\ m_packetTypeIsEncrypted' = Fill(1)
    /\ m_packetTypeIsUnencrypted' = Fill(0)
    /\ writeLog' = << >> /\ readLog' = << >>
    /\ UNCHANGED << configVars, m_sendQueue, m_receiveQueue, m_counters,
                    m_encryptionManager, m_contextManager, destroyed, nextPacket,
                    sentPackets, returnedPackets, pending, arrived, outVars >>

SetPacketFactory ==
    /\ m_packetFactory = NULL
    /\ m_packetFactory' = PrimaryFactory
    /\ m_allPacketTypes' = Fill(1)
    /\ m_packetTypeIsEncrypted' = Fill(0)
    /\ m_packetTypeIsUnencrypted' = Fill(1)
    /\ writeLog' = << >> /\ readLog' = << >>
    /\ UNCHANGED << configVars, m_sendQueue, m_receiveQueue, m_counters,
                    m_encryptionManager, m_contextManager, destroyed, nextPacket,
                    sentPackets, returnedPackets, pending, arrived, outVars >>

ClearPacketFactory ==
    /\ IF m_packetFactory = NULL
       THEN UNCHANGED << m_packetFactory, tableVars, m_sendQueue, m_receiveQueue, destroyed >>
       ELSE /\ destroyed' = DestroyEntries(DestroyEntries(destroyed, m_sendQueue, 1), m_receiveQueue, 1)
            /\ m_sendQueue' = << >>
            /\ m_receiveQueue' = << >>
            /\ m_packetFactory' = NULL
            /\ m_allPacketTypes' = NullArray
            /\ m_packetTypeIsEncrypted' = NullArray
            /\ m_packetTypeIsUnencrypted' = NullArray
    /\ writeLog' = << >> /\ readLog' = << >>
    /\ UNCHANGED << configVars, m_counters, m_encryptionManager, m_contextManager,
                    nextPacket, sentPackets, returnedPackets, pending, arrived, outVars >>

ClearSendQueue ==
    /\ destroyed' = DestroyEntries(destroyed, m_sendQueue, 1)
    /\ m_sendQueue' = << >>
    /\ writeLog' = << >> /\ readLog' = << >>
    /\ UNCHANGED << m_packetFactory, tableVars, configVars, m_receiveQueue, m_counters,
                    m_encryptionManager, m_contextManager, nextPacket, sentPackets,
                    returnedPackets, pending, arrived, outVars >>

ClearReceiveQueue ==
    /\ destroyed' = DestroyEntries(destroyed, m_receiveQueue, 1)
    /\ m_receiveQueue' = << >>
    /\ writeLog' = << >> /\ readLog' = << >>
    /\ UNCHANGED << m_packetFactory, tableVars, configVars, m_sendQueue, m_counters,
                    m_encryptionManager, m_contextManager, nextPacket, sentPackets,
                    returnedPackets, pending, arrived, outVars >>

\* Reset also clearing the counters
Reset_zeroCounters ==
    /\ destroyed' = DestroyEntries(DestroyEntries(destroyed, m_sendQueue, 1), m_receiveQueue, 1)
    /\ m_sendQueue' = << >>
    /\ m_receiveQueue' = << >>
    /\ m_contextManager' = [a \in Addresses |-> NoContext]
    /\ m_encryptionManager' = [a \in Addresses |-> NoMapping]
    /\ m_counters' = [c \in CounterNames |-> 0]
    /\ writeLog' = << >> /\ readLog' = << >>
    /\ UNCHANGED << m_packetFactory, tableVars, configVars, nextPacket,
                    sentPackets, returnedPackets, pending, arrived, outVars >>

\* Reset leaving the encryption mappings in place
Reset_keepKeys ==
    /\ destroyed' = DestroyEntries(DestroyEntries(destroyed, m_sendQueue, 1), m_receiveQueue, 1)
    /\ m_sendQueue' = << >>
    /\ m_receiveQueue' = << >>
    /\ m_contextManager' = [a \in Addresses |-> NoContext]
    /\ writeLog' = << >> /\ readLog' = << >>
    /\ UNCHANGED << m_packetFactory, tableVars, configVars, m_counters, m_encryptionManager,
                    nextPacket, sentPackets, returnedPackets, pending, arrived, outVars >>

Reset ==
    /\ destroyed' = DestroyEntries(DestroyEntries(destroyed, m_sendQueue, 1), m_receiveQueue, 1)
    /\ m_sendQueue' = << >>
    /\ m_receiveQueue' = << >>
    /\ m_contextManager' = [a \in Addresses |-> NoContext]
    /\ m_encryptionManager' = [a \in Addresses |-> NoMapping]
    /\ writeLog' = << >> /\ readLog' = << >>
    /\ UNCHANGED << m_packetFactory, tableVars, configVars, m_counters, nextPacket,
                    sentPackets, returnedPackets, pending, arrived, outVars >>

\* SendImmediate without the packet->Destroy() after the write
SendImmediate_noDestroy(s, address, packet, sequence, fault) ==
    WriteAndFlushPacket([s EXCEPT !.counters = Inc(@, "PACKETS_SENT")],
                        address, packet, sequence, fault)

\* if ( immediate ) { ... } of SendPacket
SendImmediate(s, address, packet, sequence, fault) ==
    LET counted == [s EXCEPT !.counters = Inc(@, "PACKETS_SENT")]
        w == WriteAndFlushPacket(counted, address, packet, sequence, fault)
    IN  [w EXCEPT !.destroyed = Destroy(@, packet)]

\* SendQueued making room on a full queue by dropping its oldest entry
SendQueued_dropOldest(s, address, packet, sequence) ==
    LET entry == [ sequence |-> sequence, address |-> address, packet |-> packet ]
    IN  IF ~IsFull(s.queue, SendQueueSize)
        THEN [s EXCEPT !.queue = Push(@, SendQueueSize, entry)]
        ELSE [s EXCEPT !.counters = Inc(@, "SEND_QUEUE_OVERFLOW"),
                       !.destroyed = Destroy(@, Head(s.queue).packet),
                       !.queue = Append(Tail(@), entry),
                       !.returned = TRUE]

\* else { ... } of SendPacket; returned: the early return was taken
SendQueued(s, address, packet, sequence) ==
    LET entry == [ sequence |-> sequence, address |-> address, packet |-> packet ]
    IN  IF ~IsFull(s.queue, SendQueueSize)
        THEN [s EXCEPT !.queue = Push(@, SendQueueSize, entry)]
        ELSE [s EXCEPT !.counters = Inc(@, "SEND_QUEUE_OVERFLOW"),
                       !.destroyed = Destroy(@, packet),
                       !.returned = TRUE]

\* the application creates a packet of the given type and passes it
SendPacket(address, type, sequence, immediate, fault) ==
    LET packet == [ id |-> nextPacket, type |-> type ]
        s == IF immediate
             THEN SendImmediate(Current, address, packet, sequence, fault)
             ELSE SendQueued(Current, address, packet, sequence)
    IN  /\ m_packetFactory # NULL
        /\ Cardinality(sentPackets) < MaxPackets
        /\ ~immediate => fault = "none"
        /\ nextPacket' = nextPacket + 1
        /\ sentPackets' = sentPackets \cup { packet.id }
        /\ m_sendQueue' = s.queue
        /\ m_counters' = IF s.returned THEN s.counters ELSE Inc(s.counters, "PACKETS_SENT")
        /\ m_encryptionManager' = s.manager
        /\ destroyed' = s.destroyed
        /\ writeLog' = s.log
        /\ readLog' = << >>
        /\ UNCHANGED << m_packetFactory, tableVars, configVars, m_receiveQueue,
                        m_contextManager, returnedPackets, pending, arrived, outVars >>

WritePackets(faults) ==
    /\ Len(faults) = Len(m_sendQueue)
    /\ IF m_packetFactory = NULL
       THEN /\ writeLog' = << >>
            /\ UNCHANGED << m_sendQueue, m_counters, m_encryptionManager, destroyed >>
       ELSE LET w == WriteLoop(Current, faults)
            IN  /\ m_sendQueue' = w.queue
                /\ m_counters' = w.counters
                /\ m_encryptionManager' = w.manager
                /\ destroyed' = w.destroyed
                /\ writeLog' = w.log
    /\ readLog' = << >>
    /\ UNCHANGED << m_packetFactory, tableVars, configVars, m_receiveQueue,
                    m_contextManager, nextPacket, sentPackets, returnedPackets,
                    pending, arrived, outVars >>

EnablePacketEncryption ==
    /\ m_packetFactory # NULL
    /\ m_packetTypeIsEncrypted' = Fill(1)
    /\ m_packetTypeIsUnencrypted' = Fill(0)
    /\ writeLog' = << >> /\ readLog' = << >>
    /\ UNCHANGED << m_packetFactory, m_allPacketTypes, configVars, m_sendQueue,
                    m_receiveQueue, m_counters, m_encryptionManager, m_contextManager,
                    destroyed, nextPacket, sentPackets, returnedPackets, pending,
                    arrived, outVars >>

\* DisableEncryptionForPacketType clearing the encrypted flag only
DisableEncryptionForPacketType_half(type) ==
    /\ m_packetFactory # NULL
    /\ m_packetTypeIsEncrypted' = [m_packetTypeIsEncrypted EXCEPT ![type] = 0]
    /\ UNCHANGED m_packetTypeIsUnencrypted
    /\ writeLog' = << >> /\ readLog' = << >>
    /\ UNCHANGED << m_packetFactory, m_allPacketTypes, configVars, m_sendQueue,
                    m_receiveQueue, m_counters, m_encryptionManager, m_contextManager,
                    destroyed, nextPacket, sentPackets, returnedPackets, pending,
                    arrived, outVars >>

DisableEncryptionForPacketType(type) ==
    /\ m_packetFactory # NULL
    /\ m_packetTypeIsEncrypted' = [m_packetTypeIsEncrypted EXCEPT ![type] = 0]
    /\ m_packetTypeIsUnencrypted' = [m_packetTypeIsUnencrypted EXCEPT ![type] = 1]
    /\ writeLog' = << >> /\ readLog' = << >>
    /\ UNCHANGED << m_packetFactory, m_allPacketTypes, configVars, m_sendQueue,
                    m_receiveQueue, m_counters, m_encryptionManager, m_contextManager,
                    destroyed, nextPacket, sentPackets, returnedPackets, pending,
                    arrived, outVars >>

AddEncryptionMapping(address) ==
    LET r == EncryptionManager_Add(m_encryptionManager, address, SendKey, ReceiveKey, m_time)
    IN  /\ m_encryptionManager' = r.manager
            /\ writeLog' = << >> /\ readLog' = << >>
        /\ UNCHANGED << m_packetFactory, tableVars, configVars, m_sendQueue,
                        m_receiveQueue, m_counters, m_contextManager, destroyed,
                        nextPacket, sentPackets, returnedPackets, pending, arrived,
                        outVars >>

RemoveEncryptionMapping(address) ==
    LET r == EncryptionManager_Remove(m_encryptionManager, address, m_time)
    IN  /\ m_encryptionManager' = r.manager
            /\ writeLog' = << >> /\ readLog' = << >>
        /\ UNCHANGED << m_packetFactory, tableVars, configVars, m_sendQueue,
                        m_receiveQueue, m_counters, m_contextManager, destroyed,
                        nextPacket, sentPackets, returnedPackets, pending, arrived,
                        outVars >>

ResetEncryptionMappings ==
    /\ m_encryptionManager' = [a \in Addresses |-> NoMapping]
    /\ writeLog' = << >> /\ readLog' = << >>
    /\ UNCHANGED << m_packetFactory, tableVars, configVars, m_sendQueue,
                    m_receiveQueue, m_counters, m_contextManager, destroyed,
                    nextPacket, sentPackets, returnedPackets, pending, arrived,
                    outVars >>

AddContextMapping(address, c) ==
    LET r == ContextManager_Add(m_contextManager, address, ContextOf(c))
    IN  /\ m_contextManager' = r.manager
        /\ writeLog' = << >> /\ readLog' = << >>
        /\ UNCHANGED << m_packetFactory, tableVars, configVars, m_sendQueue,
                        m_receiveQueue, m_counters, m_encryptionManager, destroyed,
                        nextPacket, sentPackets, returnedPackets, pending, arrived,
                        outVars >>

RemoveContextMapping(address) ==
    LET r == ContextManager_Remove(m_contextManager, address)
    IN  /\ m_contextManager' = r.manager
        /\ writeLog' = << >> /\ readLog' = << >>
        /\ UNCHANGED << m_packetFactory, tableVars, configVars, m_sendQueue,
                        m_receiveQueue, m_counters, m_encryptionManager, destroyed,
                        nextPacket, sentPackets, returnedPackets, pending, arrived,
                        outVars >>

ResetContextMappings ==
    /\ m_contextManager' = [a \in Addresses |-> NoContext]
    /\ writeLog' = << >> /\ readLog' = << >>
    /\ UNCHANGED << m_packetFactory, tableVars, configVars, m_sendQueue,
                    m_receiveQueue, m_counters, m_encryptionManager, destroyed,
                    nextPacket, sentPackets, returnedPackets, pending, arrived,
                    outVars >>

SetContext(context) ==
    /\ m_context' = context
    /\ writeLog' = << >> /\ readLog' = << >>
    /\ UNCHANGED << m_packetFactory, tableVars, m_flags, m_time, m_streamAllocator,
                    m_sendQueue, m_receiveQueue, m_counters, m_encryptionManager,
                    m_contextManager, destroyed, nextPacket, sentPackets,
                    returnedPackets, pending, arrived, outVars >>

SetStreamAllocator(allocator) ==
    /\ m_streamAllocator' = allocator
    /\ writeLog' = << >> /\ readLog' = << >>
    /\ UNCHANGED << m_packetFactory, tableVars, m_flags, m_time, m_context,
                    m_sendQueue, m_receiveQueue, m_counters, m_encryptionManager,
                    m_contextManager, destroyed, nextPacket, sentPackets,
                    returnedPackets, pending, arrived, outVars >>

SetFlags(flags) ==
    /\ m_flags' = flags
    /\ writeLog' = << >> /\ readLog' = << >>
    /\ UNCHANGED << m_packetFactory, tableVars, m_time, m_context, m_streamAllocator,
                    m_sendQueue, m_receiveQueue, m_counters, m_encryptionManager,
                    m_contextManager, destroyed, nextPacket, sentPackets,
                    returnedPackets, pending, arrived, outVars >>

AdvanceTime(time) ==
    /\ time >= m_time
    /\ m_time' = time
    /\ writeLog' = << >> /\ readLog' = << >>
    /\ UNCHANGED << m_packetFactory, tableVars, m_flags, m_context, m_streamAllocator,
                    m_sendQueue, m_receiveQueue, m_counters, m_encryptionManager,
                    m_contextManager, destroyed, nextPacket, sentPackets,
                    returnedPackets, pending, arrived, outVars >>

FaultSeqs(n) == [1..n -> WriteFaults]

\* ------------------------------------------------------- steps, by effect
\* a packet was passed to SendPacket in this step
SendStep == sentPackets' # sentPackets

\* ... and it was a non-immediate send: no call of the write path
QueuedSendStep == SendStep /\ writeLog' = << >>

\* the packets resident in a queue
Resident(queue) == { queue[i].packet.id : i \in DOMAIN queue }

\* -------------------------------------------------------------------- C1
\* C1: non-immediate sends that are accepted are appended at the tail of the
\* send queue with their address and sequence number, nothing else reorders
\* the queue, and a WritePackets call with a factory attached hands the
\* queued packets to the write path in queue order, each with the address
\* and sequence number of its entry, and leaves the send queue empty.
C1_FlushInOrder ==
    [][ /\ \A a \in Addresses, t \in PacketTypes, q \in Sequences :
              SendPacket(a, t, q, FALSE, "none") /\ ~IsFull(m_sendQueue, SendQueueSize)
                => m_sendQueue' = Append(m_sendQueue,
                                         [ sequence |-> q, address |-> a,
                                           packet |-> [ id |-> nextPacket, type |-> t ] ])
        /\ ~SendStep => m_sendQueue' = m_sendQueue \/ m_sendQueue' = << >>
        /\ (\E fs \in FaultSeqs(Len(m_sendQueue)) : WritePackets(fs)) /\ m_packetFactory # NULL
              => /\ m_sendQueue' = << >>
                 /\ Len(writeLog') = Len(m_sendQueue)
                 /\ \A i \in DOMAIN m_sendQueue :
                       /\ writeLog'[i].packet = m_sendQueue[i].packet.id
                       /\ writeLog'[i].address = m_sendQueue[i].address
                       /\ writeLog'[i].sequence = m_sendQueue[i].sequence
      ]_vars

\* a flush of two queued packets that differ in address and sequence number
C1_Witness ==
    /\ Len(writeLog) = 2
    /\ m_sendQueue = << >>
    /\ writeLog[1].packet < writeLog[2].packet
    /\ writeLog[1].address # writeLog[2].address
    /\ writeLog[1].sequence # writeLog[2].sequence

\* -------------------------------------------------------------------- C2
\* C2: a non-immediate SendPacket made while the send queue is full destroys
\* the packet, adds one to SEND_QUEUE_OVERFLOW, leaves PACKETS_SENT and the
\* send queue as they were.
C2_OverflowDropsNewest ==
    [][ QueuedSendStep /\ IsFull(m_sendQueue, SendQueueSize)
          => /\ destroyed'[nextPacket] = 1
             /\ m_counters'["SEND_QUEUE_OVERFLOW"] = m_counters["SEND_QUEUE_OVERFLOW"] + 1
             /\ m_counters'["PACKETS_SENT"] = m_counters["PACKETS_SENT"]
             /\ m_sendQueue' = m_sendQueue
      ]_vars

\* the queue is full of live packets and a later packet was dropped
C2_Witness ==
    /\ IsFull(m_sendQueue, SendQueueSize)
    /\ m_counters["SEND_QUEUE_OVERFLOW"] = 1
    /\ \E p \in sentPackets : destroyed[p] = 1 /\ \A r \in Resident(m_sendQueue) : r < p

\* -------------------------------------------------------------------- C3
\* C3: every packet passed to SendPacket is destroyed exactly once as soon as
\* it is no longer in the send queue, not at all while it is in the send
\* queue, and never twice.
C3_DestroyedOnce ==
    /\ \A p \in sentPackets :
          destroyed[p] = IF p \in Resident(m_sendQueue) THEN 0 ELSE 1
    /\ \A p \in PacketIds : destroyed[p] <= 1

\* all the ways out: a flushed packet, an immediate one, a dropped one
C3_Witness ==
    /\ Cardinality(sentPackets) = MaxPackets
    /\ \A p \in sentPackets : destroyed[p] = 1
    /\ m_counters["SEND_QUEUE_OVERFLOW"] >= 1
    /\ m_counters["PACKETS_WRITTEN"] >= 1

\* -------------------------------------------------------------------- C4
\* the address has a send key at the current time
HasSendKey(address) == Live(m_encryptionManager[address], m_time)

Delta(name) == m_counters'[name] - m_counters[name]

\* C4: with insecure mode off, each packet of an encrypted type written to an
\* address without a send key adds exactly one to ENCRYPTION_MAPPING_FAILURES,
\* hands no bytes to raw I/O, adds nothing to the written counters, and is
\* destroyed.
C4_KeyMissingCounted ==
    [][ ~InsecureMode /\ writeLog' # << >>
          => LET missing == { i \in DOMAIN writeLog' :
                                /\ IsEncryptedPacketType(writeLog'[i].type)
                                /\ ~HasSendKey(writeLog'[i].address) }
                 written == { i \in DOMAIN writeLog' : writeLog'[i].sent }
             IN  /\ Delta("ENCRYPTION_MAPPING_FAILURES") = Cardinality(missing)
                 /\ \A i \in missing : /\ ~writeLog'[i].sent
                                       /\ destroyed'[writeLog'[i].packet] = 1
                 /\ Delta("PACKETS_WRITTEN") = Cardinality(written)
                 /\ Delta("ENCRYPTED_PACKETS_WRITTEN") + Delta("UNENCRYPTED_PACKETS_WRITTEN")
                      = Cardinality(written)
      ]_vars

\* a key-missing failure next to a packet that was written
C4_Witness ==
    /\ ~InsecureMode
    /\ Len(writeLog) = 2
    /\ \E i, j \in DOMAIN writeLog :
          /\ writeLog[i].error = "KEY_IS_NULL" /\ ~writeLog[i].sent
          /\ destroyed[writeLog[i].packet] = 1
          /\ writeLog[j].sent
    /\ m_counters["ENCRYPTION_MAPPING_FAILURES"] = 1
    /\ m_counters["PACKETS_WRITTEN"] = 1

\* -------------------------------------------------------------------- C5
\* C5: the encrypt flag handed to WritePacket is true iff the type is
\* classified encrypted and, in insecure mode, the address has a send key; a
\* packet of an encrypted type is written and counted unencrypted only in
\* insecure mode without a key, and in insecure mode encryption is never
\* requested with a null key.
C5_EncryptFlag ==
    [][ /\ \A i \in DOMAIN writeLog' :
              LET e == writeLog'[i]
              IN  /\ e.encrypt <=> ( /\ IsEncryptedPacketType(e.type)
                                     /\ InsecureMode => HasSendKey(e.address) )
                  /\ InsecureMode /\ e.encrypt => e.key # NULL
                  /\ e.sent /\ ~e.encrypt /\ IsEncryptedPacketType(e.type)
                       => InsecureMode /\ ~HasSendKey(e.address)
        /\ writeLog' # << >>
              => /\ Delta("UNENCRYPTED_PACKETS_WRITTEN")
                      = Cardinality({ i \in DOMAIN writeLog' : writeLog'[i].sent /\ ~writeLog'[i].encrypt })
                 /\ Delta("ENCRYPTED_PACKETS_WRITTEN")
                      = Cardinality({ i \in DOMAIN writeLog' : writeLog'[i].sent /\ writeLog'[i].encrypt })
      ]_vars

\* insecure mode: an encrypted type goes out in the clear to an address
\* without a key, and encrypted to an address with one
C5_Witness ==
    /\ InsecureMode
    /\ Len(writeLog) = 2
    /\ \E i, j \in DOMAIN writeLog :
          /\ IsEncryptedPacketType(writeLog[i].type)
          /\ ~writeLog[i].encrypt /\ writeLog[i].sent /\ writeLog[i].key = NULL
          /\ writeLog[j].encrypt /\ writeLog[j].sent /\ writeLog[j].key # NULL
    /\ m_counters["UNENCRYPTED_PACKETS_WRITTEN"] >= 1
    /\ m_counters["ENCRYPTED_PACKETS_WRITTEN"] >= 1

\* -------------------------------------------------------------------- C6
\* ReadPackets pulled at least one datagram from raw I/O in this step
ReadStep == arrived' = arrived /\ pending' # pending

\* C6: when ReadPackets stops on a full receive queue, the datagram it
\* stopped at and all later ones are still pending at the raw I/O layer:
\* what is pending afterwards is everything behind the datagrams that were
\* handed to the packet processor.
C6_OverflowLeavesPending ==
    [][ Delta("RECEIVE_QUEUE_OVERFLOW") > 0
          => /\ pending' # << >>
             /\ pending' = SubSeq(pending, Len(readLog') + 1, Len(pending))
      ]_vars

\* -------------------------------------------------------------------- C7
\* the packet processor accepts the datagram in the current configuration
Valid(datagram) ==
    ReadPacket(datagram, GetReceiveKey(m_encryptionManager, datagram.address, m_time).key,
               EncryptedPacketTypes, UnencryptedPacketTypes) = "none"

ValidUpTo(i) == Cardinality({ j \in 1..i : Valid(pending[j]) })

Room == ReceiveQueueSize - Len(m_receiveQueue)

\* C7: a ReadPackets call adds one to RECEIVE_QUEUE_OVERFLOW if the queue is
\* full (at the start or after some pending datagrams were queued) while a
\* further datagram is pending, and nothing otherwise, however many
\* datagrams are behind it; if the valid pending datagrams exceed the free
\* room the queue ends up holding exactly ReceiveQueueSize packets.
C7_OverflowOnce ==
    [][ /\ Delta("RECEIVE_QUEUE_OVERFLOW") \in { 0, 1 }
        /\ ReadStep
              => /\ Delta("RECEIVE_QUEUE_OVERFLOW") = 1
                      <=> \E i \in 0..(Len(pending) - 1) : ValidUpTo(i) = Room
                 /\ ValidUpTo(Len(pending)) > Room
                      => Len(m_receiveQueue') = ReceiveQueueSize
      ]_vars

\* one overflow counted by a call that found four valid datagrams pending
\* for an empty queue
C7_Witness ==
    /\ m_counters["RECEIVE_QUEUE_OVERFLOW"] = 1
    /\ Len(readLog) = ReceiveQueueSize
    /\ \A j \in DOMAIN readLog : readLog[j].error = "none" /\ readLog[j].datagram = j
    /\ IsFull(m_receiveQueue, ReceiveQueueSize)
    /\ arrived >= ReceiveQueueSize + 2
    /\ pending # << >>

\* -------------------------------------------------------------------- C8
\* C8: a ReadPackets call hands the pending datagrams to the packet
\* processor in arrival order without skipping any, a rejected datagram is
\* not queued, and the call goes on past rejected datagrams: it ends only
\* with nothing pending or with the receive queue full.
C8_RejectContinues ==
    [][ ReadStep
          => /\ Len(readLog') <= Len(pending)
             /\ \A j \in DOMAIN readLog' :
                   /\ readLog'[j].datagram = pending[j].sequence
                   /\ readLog'[j].error # "none"
                        => /\ readLog'[j].packet = NULL
                           /\ \A k \in DOMAIN m_receiveQueue' :
                                 m_receiveQueue'[k].sequence # readLog'[j].datagram
             /\ pending' = << >> \/ IsFull(m_receiveQueue', ReceiveQueueSize)
             /\ Len(pending) - Len(pending') \in { Len(readLog'), Len(readLog') + 1 }
      ]_vars

\* two different rejections, then a datagram that is read and queued
C8_Witness ==
    /\ Len(readLog) = 3
    /\ readLog[1].error # "none"
    /\ readLog[2].error # "none"
    /\ readLog[1].error # readLog[2].error
    /\ readLog[3].error = "none"
    /\ \E k \in DOMAIN m_receiveQueue : m_receiveQueue[k].packet.id = readLog[3].packet

\* -------------------------------------------------------------------- C9
\* the entries a read call queued: one per accepted datagram, in log order
Accepted(log) == SelectSeq(log, LAMBDA e : e.error = "none")

\* C9: ReadPackets appends the packets it reads to the receive queue in
\* arrival order with the datagram's address and sequence number,
\* ReceivePacket returns the head of the queue with its address and sequence
\* number, on an empty queue it returns NULL and changes nothing, and no
\* packet it returned is destroyed by the transport.
C9_ReceiveInOrder ==
    [][ /\ ReadStep
              => LET acc == Accepted(readLog')
                 IN  /\ Len(m_receiveQueue') = Len(m_receiveQueue) + Len(acc)
                     /\ SubSeq(m_receiveQueue', 1, Len(m_receiveQueue)) = m_receiveQueue
                     /\ \A k \in DOMAIN acc :
                           LET entry == m_receiveQueue'[Len(m_receiveQueue) + k]
                           IN  /\ entry.packet.id = acc[k].packet
                               /\ entry.sequence = acc[k].datagram
                               /\ \E i \in DOMAIN pending :
                                     /\ pending[i].sequence = entry.sequence
                                     /\ pending[i].address = entry.address
                                     /\ pending[i].type = entry.packet.type
        /\ \A w \in BOOLEAN :
              ReceivePacket(w)
                => IF m_packetFactory # NULL /\ ~IsEmpty(m_receiveQueue)
                   THEN /\ ret' = Head(m_receiveQueue).packet.id
                        /\ from' = Head(m_receiveQueue).address
                        /\ sequenceOut' = IF w THEN Head(m_receiveQueue).sequence ELSE sequenceOut
                        /\ m_receiveQueue' = Tail(m_receiveQueue)
                   ELSE /\ ret' = NULL
                        /\ UNCHANGED << m_receiveQueue, m_counters, from, sequenceOut,
                                        returnedPackets, destroyed, pending >>
        /\ \A p \in returnedPackets' : destroyed'[p] = 0
      ]_vars

\* the second of two packets read from different addresses was returned,
\* after the first
C9_Witness ==
    /\ Cardinality(returnedPackets) = 2
    /\ ret \in returnedPackets
    /\ \A p \in returnedPackets : p <= ret
    /\ from = 2
    /\ sequenceOut = 2
    /\ m_counters["PACKETS_RECEIVED"] = 2
    /\ m_counters["ENCRYPTED_PACKETS_READ"] = 1

\* ------------------------------------------------------------------- C10
\* C10: while a packet factory is attached each packet type is in exactly
\* one of the two classification arrays; the read path hands the packet
\* processor exactly these arrays unless the insecure mode flag is set, and
\* then two arrays that hold every type.
C10_Classification ==
    /\ m_packetFactory # NULL
          => \A t \in PacketTypes :
                /\ m_packetTypeIsEncrypted[t] \in { 0, 1 }
                /\ m_packetTypeIsUnencrypted[t] = 1 - m_packetTypeIsEncrypted[t]
    /\ \A j \in DOMAIN readLog :
          /\ InsecureMode
                => \A t \in PacketTypes : /\ readLog[j].encryptedPacketTypes[t] = 1
                                          /\ readLog[j].unencryptedPacketTypes[t] = 1
          /\ ~InsecureMode
                => /\ readLog[j].encryptedPacketTypes = m_packetTypeIsEncrypted
                   /\ readLog[j].unencryptedPacketTypes = m_packetTypeIsUnencrypted
                   /\ readLog[j].error = "none"
                        => (readLog[j].encrypted <=> IsEncryptedPacketType(readLog[j].type))

\* a mixed classification, and a read in insecure mode that accepted a
\* plaintext datagram of an encrypted type
C10_Witness ==
    /\ m_packetFactory # NULL
    /\ InsecureMode
    /\ \E t, u \in PacketTypes : IsEncryptedPacketType(t) /\ ~IsEncryptedPacketType(u)
    /\ \E j \in DOMAIN readLog :
          /\ readLog[j].error = "none"
          /\ ~readLog[j].encrypted
          /\ IsEncryptedPacketType(readLog[j].type)

\* ------------------------------------------------------------------- C11
\* C11: a SendPacket call that is accepted, immediate or queued, adds
\* exactly one to PACKETS_SENT and nothing to SEND_QUEUE_OVERFLOW; one that
\* is rejected on a full queue adds one to SEND_QUEUE_OVERFLOW and changes
\* no other counter.
C11_SendCountedOnce ==
    [][ SendStep
          => IF QueuedSendStep /\ IsFull(m_sendQueue, SendQueueSize)
             THEN m_counters' = Inc(m_counters, "SEND_QUEUE_OVERFLOW")
             ELSE /\ Delta("PACKETS_SENT") = 1
                  /\ Delta("SEND_QUEUE_OVERFLOW") = 0
      ]_vars

\* ------------------------------------------------------------------- C12
\* no key mapping and no context mapping is held
NoMappings ==
    /\ \A a \in Addresses : ~m_encryptionManager[a].present
    /\ \A a \in Addresses : ~m_contextManager[a].present

\* C12: no operation lowers a counter: across every step, whatever the
\* operation (the resets, the queue clears and detaching and re-attaching
\* the factory included), each counter is at least what it was.
C12_CountersMonotone ==
    [][ \A c \in CounterNames : m_counters'[c] >= m_counters[c] ]_vars

\* a packet was queued and a datagram read, then both queues and both
\* directories were emptied without a write or a receive: the counts stand
C12_Witness ==
    /\ m_packetFactory # NULL
    /\ m_sendQueue = << >> /\ m_receiveQueue = << >>
    /\ NoMappings
    /\ m_counters["PACKETS_SENT"] >= 1
    /\ m_counters["PACKETS_WRITTEN"] = 0
    /\ m_counters["SEND_QUEUE_OVERFLOW"] = 0
    /\ m_counters["PACKETS_READ"] >= 1
    /\ m_counters["PACKETS_RECEIVED"] = 0
    /\ m_counters["ENCRYPTED_PACKETS_READ"] >= 1

\* ------------------------------------------------------------------- C13
\* the stream allocator, packet factory and context data of a processor call
\* are those of the context mapping of the call's address, or the
\* transport's own where the address has no mapping
ContextGiven(call) ==
    LET context == m_contextManager[call.address]
    IN  IF context.present
        THEN /\ call.streamAllocator = context.streamAllocator
             /\ call.packetFactory = context.packetFactory
             /\ call.context = context.contextData
        ELSE /\ call.streamAllocator = m_streamAllocator
             /\ call.packetFactory = m_packetFactory
             /\ call.context = m_context

\* C13: every packet written and every datagram read for an address is
\* given to the processor with the allocator, factory and context data of
\* that address's context mapping as it is when the operation runs, and with
\* the transport's primary allocator, factory and default context when the
\* address has no mapping then (never mapped, or the mapping was removed);
\* other addresses' mappings play no part.
C13_ContextPerAddress ==
    [][ /\ \A i \in DOMAIN writeLog' : ContextGiven(writeLog'[i])
        /\ \A i \in DOMAIN readLog' : ContextGiven(readLog'[i])
      ]_vars

\* one flush wrote for a mapped address and then for an unmapped one, after
\* the application had replaced the default context and stream allocator
C13_Witness ==
    /\ Len(writeLog) = 2
    /\ writeLog[1].address # writeLog[2].address
    /\ m_contextManager[writeLog[1].address].present
    /\ ~m_contextManager[writeLog[2].address].present
    /\ writeLog[1].context = m_contextManager[writeLog[1].address].contextData
    /\ writeLog[2].context = UserContext
    /\ writeLog[2].streamAllocator = OtherAllocator
    /\ m_context = UserContext

\* ------------------------------------------------------------------- C14
\* the state of the transport and of its surroundings, the call logs aside
stateVars == << m_packetFactory, tableVars, configVars, m_sendQueue, m_receiveQueue,
                m_counters, m_encryptionManager, m_contextManager, destroyed,
                nextPacket, sentPackets, returnedPackets, pending, arrived, outVars >>

NoKeys == \A a \in Addresses : ~m_encryptionManager[a].present

NoContexts == \A a \in Addresses : ~m_contextManager[a].present

\* C14: Reset leaves both queues empty and both directories without a
\* mapping, and leaves the counters, flags, time, factory and classification
\* table as they were; Reset, ResetEncryptionMappings, ResetContextMappings,
\* ClearSendQueue and ClearReceiveQueue each establish a condition under
\* which the same call changes nothing, so that a second call in a row is
\* a no-op; no packet is ever destroyed twice, and the packets the clear
\* loops assert on are live.
C14_ResetIdempotent ==
    [][ /\ \A p \in PacketIds : destroyed'[p] <= 1
        /\ \A p \in Resident(m_sendQueue) \cup Resident(m_receiveQueue) : destroyed[p] = 0
        /\ Reset => /\ m_sendQueue' = << >> /\ m_receiveQueue' = << >>
                    /\ NoKeys' /\ NoContexts'
                    /\ UNCHANGED << m_counters, m_flags, m_time, m_packetFactory, tableVars >>
        /\ ( Reset /\ m_sendQueue = << >> /\ m_receiveQueue = << >> /\ NoKeys /\ NoContexts )
              => UNCHANGED stateVars
        /\ ClearSendQueue => m_sendQueue' = << >>
        /\ ( ClearSendQueue /\ m_sendQueue = << >> ) => UNCHANGED stateVars
        /\ ClearReceiveQueue => m_receiveQueue' = << >>
        /\ ( ClearReceiveQueue /\ m_receiveQueue = << >> ) => UNCHANGED stateVars
        /\ ResetEncryptionMappings => NoKeys'
        /\ ( ResetEncryptionMappings /\ NoKeys ) => UNCHANGED stateVars
        /\ ResetContextMappings => NoContexts'
        /\ ( ResetContextMappings /\ NoContexts ) => UNCHANGED stateVars
      ]_vars

\* a queued packet and a read packet were destroyed by a clear, no mapping is
\* left, and the flags, the time and the classification set before stand
C14_Witness ==
    /\ m_packetFactory # NULL
    /\ m_sendQueue = << >> /\ m_receiveQueue = << >>
    /\ NoKeys /\ NoContexts
    /\ \E p \in sentPackets : destroyed[p] = 1
    /\ \E p \in (1..(nextPacket - 1)) \ sentPackets : destroyed[p] = 1
    /\ m_counters["ENCRYPTED_PACKETS_READ"] >= 1
    /\ IsEncryptedPacketType(0)
    /\ InsecureMode
    /\ m_time = MaxTime

\* ------------------------------------------------------------------- C15
\* a queue holds no more entries than its capacity, and each entry a packet
\* that was created, has not been destroyed and sits in no other entry,
\* with the address of a peer
QueueSound(queue, size) ==
    /\ Len(queue) \in 0..size
    /\ \A i \in DOMAIN queue :
          /\ queue[i].packet.id \in 1..(nextPacket - 1)
          /\ destroyed[queue[i].packet.id] = 0
          /\ queue[i].address \in Addresses
          /\ \A j \in DOMAIN queue : queue[j].packet.id = queue[i].packet.id => j = i

\* C15: in every state the send queue holds between 0 and SendQueueSize
\* entries and the receive queue between 0 and ReceiveQueueSize, every
\* entry holds a live packet and a valid address, and every packet a
\* ReadPackets call reads successfully is in the receive queue afterwards:
\* the queue grows by exactly the packets the call counted as read.
C15_QueuesSound ==
    [][ /\ QueueSound(m_sendQueue, SendQueueSize) /\ QueueSound(m_receiveQueue, ReceiveQueueSize)
        /\ QueueSound(m_sendQueue, SendQueueSize)' /\ QueueSound(m_receiveQueue, ReceiveQueueSize)'
        /\ Resident(m_sendQueue') \cap Resident(m_receiveQueue') = {}
        /\ ReadStep
              => /\ Delta("PACKETS_READ") = Len(Accepted(readLog'))
                 /\ Len(m_receiveQueue') = Len(m_receiveQueue) + Delta("PACKETS_READ")
                 /\ \A k \in DOMAIN Accepted(readLog') :
                       Accepted(readLog')[k].packet \in Resident(m_receiveQueue')
      ]_vars

\* both queues are full, the receive queue filled by a read call that then
\* stopped at a further datagram
C15_Witness ==
    /\ IsFull(m_sendQueue, SendQueueSize)
    /\ IsFull(m_receiveQueue, ReceiveQueueSize)
    /\ Len(Accepted(readLog)) >= 1
    /\ m_counters["RECEIVE_QUEUE_OVERFLOW"] >= 1
    /\ m_counters["SEND_QUEUE_OVERFLOW"] >= 1

\* ------------------------------------------------------------------- C16
\* the sequence number the application sends with records what the encrypt
\* decision and the context would have been had they been resolved at the
\* time of the SendPacket call: 1 for unencrypted with the primary context,
\* +1 for encrypted, +2 for a context mapping
EnqueueTag(address, type) ==
    1 + ( IF EncryptFlag(type, GetSendKey(m_encryptionManager, address, m_time).key) THEN 1 ELSE 0 )
      + ( IF m_contextManager[address].present THEN 2 ELSE 0 )

\* this step is a WritePackets call that wrote queued packets
FlushStep == writeLog' # << >> /\ ~SendStep

\* C16: each packet a WritePackets call takes from the send queue is
\* written with the send key, the encrypt decision (classification, insecure
\* flag, key presence) and the context that hold when WritePackets runs,
\* whatever they were when the packet was queued.
C16_ResolvedAtFlush ==
    [][ FlushStep
          => \A i \in DOMAIN writeLog' :
                LET e == writeLog'[i]
                IN  /\ e.key = IF HasSendKey(e.address)
                               THEN m_encryptionManager[e.address].sendKey
                               ELSE NULL
                    /\ e.encrypt <=> ( /\ IsEncryptedPacketType(e.type)
                                       /\ InsecureMode => HasSendKey(e.address) )
                    /\ ContextGiven(e)
      ]_vars

\* a packet queued when it would have gone out unencrypted with the primary
\* context is flushed encrypted with the address's context, and one queued
\* when it would have been encrypted is flushed after its key has expired
C16_Witness ==
    /\ Len(writeLog) = 2
    /\ writeLog[1].sequence = 1
    /\ writeLog[1].encrypt /\ writeLog[1].key # NULL
    /\ writeLog[1].context = ContextOf(1).contextData
    /\ writeLog[2].sequence \in { 2, 4 }
    /\ writeLog[2].key = NULL

\* ------------------------------------------------------------------- C17
\* the calls of a log that ended with the given processor error
Failed(log, error) == Cardinality({ i \in DOMAIN log : log[i].error = error })

\* C17: a ReadPackets call adds to DECRYPT_PACKET_FAILURES one for each
\* datagram whose decryption failed and nothing else, and adds nothing to
\* ENCRYPT_PACKET_FAILURES: a datagram too small to be a packet is counted
\* in neither of the two.
C17_ReadFailureCategories ==
    [][ ReadStep
          => /\ Delta("DECRYPT_PACKET_FAILURES") = Failed(readLog', "DECRYPT_FAILED")
             /\ Delta("ENCRYPT_PACKET_FAILURES") = 0
      ]_vars

\* ------------------------------------------------------------------- C18
\* C18: every packet the write path processes is given to the processor
\* once and counted once: a call that processed n packets adds n to the four
\* outcome counters together, one to PACKETS_WRITTEN for each packet whose
\* bytes went to raw I/O (which are the packets the processor did not fail)
\* and one to the counter of its failure kind for each of the others; no
\* packet appears twice in a call, and none was processed by an earlier call.
C18_OneOutcomePerWrite ==
    [][ writeLog' # << >>
          => /\ Delta("PACKETS_WRITTEN") + Delta("ENCRYPTION_MAPPING_FAILURES")
                  + Delta("ENCRYPT_PACKET_FAILURES") + Delta("WRITE_PACKET_FAILURES")
                  = Len(writeLog')
             /\ Delta("PACKETS_WRITTEN")
                  = Cardinality({ i \in DOMAIN writeLog' : writeLog'[i].sent })
             /\ Delta("ENCRYPTION_MAPPING_FAILURES") = Failed(writeLog', "KEY_IS_NULL")
             /\ Delta("ENCRYPT_PACKET_FAILURES") = Failed(writeLog', "ENCRYPT_FAILED")
             /\ Delta("WRITE_PACKET_FAILURES") = Failed(writeLog', "WRITE_PACKET_FAILED")
             /\ \A i \in DOMAIN writeLog' :
                   /\ writeLog'[i].sent <=> writeLog'[i].error = "none"
                   /\ destroyed[writeLog'[i].packet] = 0
                   /\ destroyed'[writeLog'[i].packet] = 1
                   /\ \A j \in DOMAIN writeLog' :
                         writeLog'[j].packet = writeLog'[i].packet => j = i
      ]_vars

\* one flush in which the processor failed both packets, in different ways
C18_Witness ==
    /\ Len(writeLog) = 2
    /\ writeLog[1].error = "ENCRYPT_FAILED"
    /\ writeLog[2].error = "WRITE_PACKET_FAILED"
    /\ m_counters["ENCRYPT_PACKET_FAILURES"] = 1
    /\ m_counters["WRITE_PACKET_FAILURES"] = 1
    /\ m_counters["PACKETS_WRITTEN"] = 0

\* ------------------------------------------------------------------- C19
\* C19: the step that attaches a packet factory, the first time or after a
\* detach, leaves every type classified unencrypted whatever the table held
\* before; EnablePacketEncryption classifies every type encrypted;
\* DisableEncryptionForPacketType(t) takes t out of the encrypted types and
\* changes no other type; while the factory stays attached no other step
\* changes the classification. So after an Enable followed by Disable calls
\* on a set of types the encrypted types are exactly those not in the set.
C19_TableDefaults ==
    [][ /\ m_packetFactory = NULL /\ m_packetFactory' # NULL
              => \A t \in PacketTypes : m_packetTypeIsEncrypted'[t] = 0
        /\ EnablePacketEncryption
              => \A t \in PacketTypes : m_packetTypeIsEncrypted'[t] # 0
        /\ \A t \in PacketTypes :
              DisableEncryptionForPacketType(t)
                => \A u \in PacketTypes :
                      m_packetTypeIsEncrypted'[u] # 0 <=> ( u # t /\ IsEncryptedPacketType(u) )
        /\ ( /\ m_packetFactory # NULL /\ m_packetFactory' # NULL
             /\ ~EnablePacketEncryption
             /\ \A t \in PacketTypes : ~DisableEncryptionForPacketType(t) )
              => UNCHANGED m_packetTypeIsEncrypted
      ]_vars

\* a factory attached again after a detach: a plaintext datagram had been
\* rejected because its type was classified encrypted, the detach emptied a
\* receive queue that held a packet, and now no type is encrypted
C19_Witness ==
    /\ m_packetFactory # NULL
    /\ \A t \in PacketTypes : ~IsEncryptedPacketType(t)
    /\ m_counters["READ_PACKET_FAILURES"] >= 1
    /\ m_counters["PACKETS_READ"] >= 1
    /\ m_receiveQueue = << >>
    /\ ~InsecureMode

\* ------------------------------------------------------------------- C20
\* C20: in every state PACKETS_WRITTEN is the sum of ENCRYPTED_PACKETS_WRITTEN
\* and UNENCRYPTED_PACKETS_WRITTEN, and PACKETS_READ is the sum of
\* ENCRYPTED_PACKETS_READ and UNENCRYPTED_PACKETS_READ.
C20_VariantSums ==
    /\ m_counters["PACKETS_WRITTEN"]
          = m_counters["ENCRYPTED_PACKETS_WRITTEN"] + m_counters["UNENCRYPTED_PACKETS_WRITTEN"]
    /\ m_counters["PACKETS_READ"]
          = m_counters["ENCRYPTED_PACKETS_READ"] + m_counters["UNENCRYPTED_PACKETS_READ"]

\* a packet was written encrypted and a datagram read unencrypted, and a
\* reset has run since
C20_Witness ==
    /\ m_counters["ENCRYPTED_PACKETS_WRITTEN"] = 1
    /\ m_counters["UNENCRYPTED_PACKETS_READ"] = 1
    /\ m_counters["PACKETS_WRITTEN"] = 1
    /\ m_counters["PACKETS_READ"] = 1
    /\ NoMappings
    /\ m_receiveQueue = << >>
    /\ m_counters["PACKETS_RECEIVED"] = 0

\* ------------------------------------------------------------------- C21
\* the packets the read path created
ReadPacketIds == (1..(nextPacket - 1)) \ sentPackets

\* the read packets a clear of the receive queue destroyed: the queue was
\* cleared while it held them
ClearedPackets == { p \in ReadPacketIds : destroyed[p] > 0 }

\* C21: PACKETS_RECEIVED plus the length of the receive queue is at most
\* PACKETS_READ, and equal to it as long as no clear (ClearReceiveQueue,
\* Reset, ClearPacketFactory) has destroyed a packet of the receive queue;
\* the packets handed to the application are packets the read path created,
\* one for each count of PACKETS_RECEIVED.
C21_ReceivedWithinRead ==
    /\ m_counters["PACKETS_RECEIVED"] + Len(m_receiveQueue) <= m_counters["PACKETS_READ"]
    /\ ClearedPackets = {}
          => m_counters["PACKETS_RECEIVED"] + Len(m_receiveQueue) = m_counters["PACKETS_READ"]
    /\ returnedPackets \subseteq ReadPacketIds
    /\ Cardinality(returnedPackets) = m_counters["PACKETS_RECEIVED"]

\* a packet was cleared out of the queue, later ones were read, one of them
\* was received and one is waiting: the sum is short of PACKETS_READ
C21_Witness ==
    /\ ClearedPackets # {}
    /\ m_counters["PACKETS_RECEIVED"] >= 1
    /\ Len(m_receiveQueue) >= 1
    /\ m_counters["PACKETS_RECEIVED"] + Len(m_receiveQueue) < m_counters["PACKETS_READ"]

\* the send queue and the lifetime of the packets passed to SendPacket
NextSend ==
    \/ SetPacketFactory
    \/ ClearPacketFactory
    \/ ClearSendQueue
    \/ Reset
    \/ \E a \in Addresses, t \in PacketTypes, q \in Sequences, i \in BOOLEAN, f \in WriteFaults :
          SendPacket(a, t, q, i, f)
    \/ \E fs \in FaultSeqs(Len(m_sendQueue)) : WritePackets(fs)
    \/ EnablePacketEncryption

SpecSend == Init /\ [][NextSend]_vars

\* the write path under every classification, key mapping, flag and time
NextWrite ==
    \/ SetPacketFactory
    \/ /\ Cardinality(sentPackets) < MaxWrites
       /\ \E a \in Addresses, t \in PacketTypes, i \in BOOLEAN, f \in WriteFaults :
             SendPacket(a, t, 1, i, f)
    \/ \E fs \in FaultSeqs(Len(m_sendQueue)) : WritePackets(fs)
    \/ EnablePacketEncryption
    \/ \E t \in PacketTypes : DisableEncryptionForPacketType(t)
    \/ \E a \in Addresses : AddEncryptionMapping(a)
    \/ \E a \in Addresses : RemoveEncryptionMapping(a)
    \/ \E f \in FlagValues : SetFlags(f)

SpecWrite == Init /\ [][NextWrite]_vars

\* the read path and the receive queue
NextRead ==
    \/ SetPacketFactory
    \/ /\ arrived < MaxDatagrams
       /\ \E a \in Addresses, c \in { d \in DatagramContents : d.type = 0 } : Arrive(a, c)
    \/ ReadPackets
    \/ \E w \in BOOLEAN : ReceivePacket(w)
    \/ ClearReceiveQueue
    \/ Reset
    \/ EnablePacketEncryption
    \/ AddEncryptionMapping(1)

SpecRead == Init /\ [][NextRead]_vars

\* the drain loop of ReadPackets against bursts longer than the queue
NextDrain ==
    \/ SetPacketFactory
    \/ /\ arrived < MaxBurst
       /\ \E a \in Addresses : Arrive(a, [ type |-> 0, encrypted |-> FALSE, fault |-> "none" ])
    \/ /\ arrived < MaxBurst
       /\ Arrive(1, [ type |-> 0, encrypted |-> FALSE, fault |-> "small" ])
    \/ ReadPackets
    \/ ReceivePacket(TRUE)

SpecDrain == Init /\ [][NextDrain]_vars

\* the classification arrays and their use by the read path
NextTable ==
    \/ SetPacketFactory
    \/ ClearPacketFactory
    \/ EnablePacketEncryption
    \/ \E t \in PacketTypes : DisableEncryptionForPacketType(t)
    \/ \E f \in FlagValues : SetFlags(f)
    \/ /\ arrived < MaxDatagrams
       /\ \E c \in { d \in DatagramContents : d.fault = "none" } : Arrive(1, c)
    \/ ReadPackets

SpecTable == Init /\ [][NextTable]_vars

\* every operation of the transport, on a small amount of traffic
NextAll ==
    \/ SetPacketFactory
    \/ ClearPacketFactory
    \/ Reset
    \/ ClearSendQueue
    \/ ClearReceiveQueue
    \/ ResetEncryptionMappings
    \/ ResetContextMappings
    \/ ( /\ Cardinality(sentPackets) + arrived < MaxTraffic
         /\ \E i \in BOOLEAN, f \in WriteFaults : SendPacket(1, 0, 1, i, f) )
    \/ ( /\ Cardinality(sentPackets) + arrived < MaxTraffic
         /\ \E c \in { d \in DatagramContents : d.type = 0 /\ d.fault \in {"none", "small"} } :
                Arrive(1, c) )
    \/ \E fs \in FaultSeqs(Len(m_sendQueue)) : WritePackets(fs)
    \/ ReadPackets
    \/ ReceivePacket(TRUE)
    \/ EnablePacketEncryption
    \/ AddEncryptionMapping(1)
    \/ AddContextMapping(1, 1)

SpecAll == Init /\ [][NextAll]_vars

\* context mappings and the primary context change between sends, flushes
\* and reads
NextContext ==
    \/ SetPacketFactory
    \/ ( /\ Cardinality(sentPackets) + arrived < MaxTraffic
         /\ \E a \in Addresses, i \in BOOLEAN : SendPacket(a, 0, 1, i, "none") )
    \/ ( /\ Cardinality(sentPackets) + arrived < MaxTraffic
         /\ \E a \in Addresses : Arrive(a, [type |-> 0, encrypted |-> FALSE, fault |-> "none"]) )
    \/ \E fs \in FaultSeqs(Len(m_sendQueue)) : WritePackets(fs)
    \/ ReadPackets
    \/ \E a \in Addresses, c \in ContextIds : AddContextMapping(a, c)
    \/ \E a \in Addresses : RemoveContextMapping(a)
    \/ ResetContextMappings
    \/ \E context \in { NULL, UserContext } : SetContext(context)
    \/ \E allocator \in { PrimaryAllocator, OtherAllocator } : SetStreamAllocator(allocator)

SpecContext == Init /\ [][NextContext]_vars

\* the resets and clears on queues and directories that hold something
NextReset ==
    \/ SetPacketFactory
    \/ Reset
    \/ ClearSendQueue
    \/ ClearReceiveQueue
    \/ ResetEncryptionMappings
    \/ ResetContextMappings
    \/ ( /\ Cardinality(sentPackets) + arrived < MaxTraffic
         /\ SendPacket(1, 0, 1, FALSE, "none") )
    \/ ( /\ Cardinality(sentPackets) + arrived < MaxTraffic
         /\ \E e \in BOOLEAN : Arrive(1, [type |-> 0, encrypted |-> e, fault |-> "none"]) )
    \/ ReadPackets
    \/ EnablePacketEncryption
    \/ AddEncryptionMapping(1)
    \/ AddContextMapping(1, 1)
    \/ SetFlags(TRANSPORT_FLAG_INSECURE_MODE)
    \/ \E time \in 0..MaxTime : AdvanceTime(time)

SpecReset == Init /\ [][NextReset]_vars

\* both queues filled, overfilled and emptied
NextQueues ==
    \/ SetPacketFactory
    \/ SendPacket(1, 0, 1, FALSE, "none")
    \/ WritePackets([k \in 1..Len(m_sendQueue) |-> "none"])
    \/ ( /\ arrived < MaxDatagrams
         /\ Arrive(1, [type |-> 0, encrypted |-> FALSE, fault |-> "none"]) )
    \/ ReadPackets
    \/ ReceivePacket(TRUE)
    \/ Reset

SpecQueues == Init /\ [][NextQueues]_vars

\* keys, contexts, classification, flags and time change while packets wait
\* in the send queue
NextDefer ==
    \/ SetPacketFactory
    \/ ( /\ Cardinality(sentPackets) < MaxWrites
         /\ \E a \in Addresses : SendPacket(a, 0, EnqueueTag(a, 0), FALSE, "none") )
    \/ WritePackets([k \in 1..Len(m_sendQueue) |-> "none"])
    \/ EnablePacketEncryption
    \/ DisableEncryptionForPacketType(0)
    \/ \E a \in Addresses : AddEncryptionMapping(a)
    \/ RemoveEncryptionMapping(1)
    \/ AddContextMapping(1, 1)
    \/ RemoveContextMapping(1)
    \/ \E f \in FlagValues : SetFlags(f)
    \/ \E time \in 0..MaxTime : AdvanceTime(time)

SpecDefer == Init /\ [][NextDefer]_vars

\* the receive queue filled by reads, emptied by receives and by each of
\* the three operations that clear it
NextReceive ==
    \/ SetPacketFactory
    \/ ClearPacketFactory
    \/ ( /\ arrived < MaxDatagrams
         /\ \E f \in { "none", "small" } :
               Arrive(1, [type |-> 0, encrypted |-> FALSE, fault |-> f]) )
    \/ ReadPackets
    \/ \E w \in BOOLEAN : ReceivePacket(w)
    \/ ClearReceiveQueue
    \/ Reset
    \/ ( /\ Cardinality(sentPackets) < MaxWrites
         /\ SendPacket(1, 0, 1, FALSE, "none") )

SpecReceive == Init /\ [][NextReceive]_vars
====
